---------------------------- MODULE Spec2Model ----------------------------
(***************************************************************************)
(* A model of PresolveComillas (models/utils_models/presolve_class.py):    *)
(* the LP state held in the object's fields, the orchestrator that applies *)
(* the enabled reduction rules in its fixed order, and the rules.          *)
(*                                                                         *)
(* Numbers are exact rationals <<numerator, denominator>> in lowest terms  *)
(* with a positive denominator.  Positions of rows and columns are counted *)
(* from 1 here and from 0 in the source; the VALUES kept in                *)
(* original_row_index / original_column_index and in the change journal    *)
(* are the source's 0-based values.                                        *)
(***************************************************************************)
EXTENDS Integers, Sequences, FiniteSets, TLC

VARIABLES
    model,                  \* self.model: the LP the engine was built with
    perform,                \* the perform_* flags that are True (rule names)
    k,                      \* self.k
    A,                      \* self.A   [shape |-> <<m, n>>, A |-> rows]
    b,                      \* self.b   (a Python list)
    c,                      \* self.c   (a Python list)
    co,                     \* self.co
    lb, ub,                 \* self.lb, self.ub
    lb_ndarray,             \* TRUE when self.lb / self.ub are numpy arrays
    of_sense,               \* self.of_sense
    cons_senses,            \* self.cons_senses
    variable_names,         \* self.variable_names
    original_row_index,     \* self.original_row_index
    original_column_index,  \* self.original_column_index
    change_dictionary,      \* self.change_dictionary
    operation_table,        \* self.operation_table
    solution,               \* the local dict `solution` of the iterating rules
    warned,                 \* warnings.warn calls so far, by kind
    pc                      \* where the orchestrator is

vars == <<model, perform, k, A, b, c, co, lb, ub, lb_ndarray, of_sense,
          cons_senses, variable_names, original_row_index,
          original_column_index, change_dictionary, operation_table,
          solution, warned, pc>>

lp_vars == <<A, b, c, co, lb, ub, lb_ndarray, of_sense, cons_senses,
             variable_names, original_row_index, original_column_index>>

-----------------------------------------------------------------------------
(* Bounds of the model *)

\* The endless warning loop of eliminate_singleton_equalities is followed
\* until this many infeasibility warnings were counted.
MaxWarnings == 2

\* Largest number of row blocks (an inequality row, or the two rows of an
\* equality) of a generated input LP.
MaxBlocks == 2

\* Calls of orchestrator_presolve_operations on one engine.
MaxInvocations == 2

-----------------------------------------------------------------------------
(* Exact rational arithmetic *)

Abs(x) == IF x < 0 THEN -x ELSE x

RECURSIVE GCD(_, _)
GCD(x, y) == IF y = 0 THEN x ELSE GCD(y, x % y)

Rat(n, d) ==
    LET g == GCD(Abs(n), Abs(d))
        s == IF d < 0 THEN -1 ELSE 1
    IN  <<(s * n) \div g, (s * d) \div g>>

R(n)       == <<n, 1>>
Zero       == <<0, 1>>
RAdd(x, y) == Rat(x[1] * y[2] + y[1] * x[2], x[2] * y[2])
RNeg(x)    == <<-x[1], x[2]>>
RSub(x, y) == RAdd(x, RNeg(y))
RMul(x, y) == Rat(x[1] * y[1], x[2] * y[2])
RDiv(x, y) == Rat(x[1] * y[2], x[2] * y[1])
RLt(x, y)  == x[1] * y[2] < y[1] * x[2]
RLe(x, y)  == x[1] * y[2] <= y[1] * x[2]
RAbs(x)    == <<Abs(x[1]), x[2]>>
IsZero(x)  == x[1] = 0
IsPos(x)   == x[1] > 0
IsNeg(x)   == x[1] < 0

-----------------------------------------------------------------------------
(* Sequences as Python lists and numpy arrays *)

Range(s) == {s[i] : i \in DOMAIN s}

\* numpy.delete(s, S): the entries at the positions in S removed at once.
NpDelete(s, S) ==
    LET F[i \in 0..Len(s)] ==
            IF i = 0 THEN <<>>
            ELSE IF i \in S THEN F[i - 1] ELSE Append(F[i - 1], s[i])
    IN  F[Len(s)]

\* del s[i] of a Python list (i is in range).
DelAt(s, i) == SubSeq(s, 1, i - 1) \o SubSeq(s, i + 1, Len(s))

\* sorted(idx, reverse=True): a repeated index stays repeated.
RECURSIVE SortedReverse(_)
SortedReverse(idx) ==
    IF idx = <<>> THEN <<>>
    ELSE LET mx == CHOOSE x \in Range(idx) : \A y \in Range(idx) : y <= x
             p  == CHOOSE i \in DOMAIN idx : idx[i] = mx
         IN  <<mx>> \o SortedReverse(DelAt(idx, p))

\* for index in idx: del s[index]   -- stops at the first index out of range.
\* Gives the list as the loop left it and whether an IndexError was raised.
RECURSIVE DelLoop(_, _)
DelLoop(s, idx) ==
    IF idx = <<>> THEN [list |-> s, raised |-> FALSE]
    ELSE IF Head(idx) > Len(s) THEN [list |-> s, raised |-> TRUE]
    ELSE DelLoop(DelAt(s, Head(idx)), Tail(idx))

\* A sequence of positions in increasing order, from a set.
RECURSIVE SetToSeq(_)
SetToSeq(S) ==
    IF S = {} THEN <<>>
    ELSE LET m == CHOOSE x \in S : \A y \in S : x <= y
         IN  <<m>> \o SetToSeq(S \ {m})

-----------------------------------------------------------------------------
(* The matrix A: csr_matrix, read through .A, .shape, .nnz *)

NumRows(M) == M.shape[1]
NumCols(M) == M.shape[2]
Mat(rows, n) == [shape |-> <<Len(rows), n>>, A |-> rows]

\* np.nonzero(row)[0]
NonZero(row) == {j \in DOMAIN row : ~IsZero(row[j])}
\* np.count_nonzero(self.A.A, axis=1)[i]
count_nonzero(row) == Cardinality(NonZero(row))
\* self.A.A[:, j]
Column(M, j) == [i \in 1..NumRows(M) |-> M.A[i][j]]
\* self.A.nnz
RECURSIVE SumLen(_)
SumLen(s) == IF s = <<>> THEN 0 ELSE count_nonzero(Head(s)) + SumLen(Tail(s))
nnz(M) == SumLen(M.A)

\* np.delete(self.A.toarray(), S, axis=0)
DeleteRows(M, S) == Mat(NpDelete(M.A, S), NumCols(M))
\* np.delete(self.A.toarray(), S, axis=1)
DeleteCols(M, S) ==
    [shape |-> <<NumRows(M), NumCols(M) - Cardinality(S \cap (1..NumCols(M)))>>,
     A     |-> [i \in 1..NumRows(M) |-> NpDelete(M.A[i], S)]]

-----------------------------------------------------------------------------
(* Collaborators from utils_functions, which the class imports *)

\* find_corresponding_negative_rows_with_indices(A, b): the rows j # i with
\* A[j,:] = -A[i,:] and b[j] = -b[i].  has_negative_counterpart[i] is
\* "Mates(M, rhs, i) # {}" and indices_list[i] is any one of them.
Mates(M, rhs, i) ==
    {j \in 1..NumRows(M) :
        /\ j # i
        /\ \A q \in 1..NumCols(M) : M.A[j][q] = RNeg(M.A[i][q])
        /\ rhs[j] = RNeg(rhs[i])}

has_negative_counterpart(M, rhs, i) == Mates(M, rhs, i) # {}

\* The detectors are given A and b of one LP state: a b that has not one
\* entry per row of A is reported as a programming error.
DetectorRaises(M, rhs) == Len(rhs) # NumRows(M)

\* linear_dependency(A, b): dependent_rows[i], the rows j # i whose
\* (A[j,:], b[j]) is a nonzero multiple of (A[i,:], b[i]).
Proportional(M, rhs, i, j) ==
    LET ri == Append(M.A[i], rhs[i])
        rj == Append(M.A[j], rhs[j])
    IN  /\ NonZero(ri) = NonZero(rj)
        /\ \A p, q \in NonZero(ri) :
               RMul(rj[p], ri[q]) = RMul(rj[q], ri[p])

dependent_rows(M, rhs, i) ==
    {j \in 1..NumRows(M) : j # i /\ Proportional(M, rhs, i, j)}

has_linear_dependency(M, rhs, i) == dependent_rows(M, rhs, i) # {}

\* normalize_features(A, b): each row divided by its largest absolute value
\* (a row without a nonzero is left as it is).
RowScale(row) ==
    IF NonZero(row) = {} THEN R(1)
    ELSE LET j == CHOOSE p \in NonZero(row) :
                      \A q \in NonZero(row) : RLe(RAbs(row[q]), RAbs(row[p]))
         IN  RAbs(row[j])

normalize_features(M) ==
    [i \in 1..NumRows(M) |->
        [j \in 1..NumCols(M) |-> RDiv(M.A[i][j], RowScale(M.A[i]))]]

\* matrix_sparsification(threshold, A_norm, A): the entries of A whose
\* normalised absolute value is below the threshold are set to zero.
matrix_sparsification(threshold, A_norm, M) ==
    [M EXCEPT !.A =
        [i \in 1..NumRows(M) |->
            [j \in 1..NumCols(M) |->
                IF RLt(RAbs(A_norm[i][j]), threshold) THEN Zero
                ELSE M.A[i][j]]]]

-----------------------------------------------------------------------------
(* Parameters of the rules *)

\* eliminate_implied_bounds(infinity=1e30): the magnitudes of the model are
\* scaled down, and the inputs below take their "infinite" values from it.
infinity == R(100)
\* eliminate_implied_bounds(feasibility_tolerance=1e-6)
feasibility_tolerance == <<1, 1000000>>
\* reduction_small_coefficients(threshold=5*10e-2), which is 0.5
threshold == <<1, 2>>

-----------------------------------------------------------------------------
(* The orchestrator's fixed order *)

Order == << "reduction_small_coefficients",
            "eliminate_implied_bounds",
            "eliminate_redundant_rows",
            "eliminate_kton_equalities",
            "eliminate_singleton_equalities",
            "eliminate_singleton_inequalities",
            "eliminate_dual_singleton_inequalities",
            "eliminate_redundant_columns",
            "eliminate_zero_rows",
            "eliminate_zero_columns" >>

Rules == Range(Order)

\* As Label, with the labels of the two equality rules exchanged.
LabelExchanged == [r \in Rules |->
    CASE r = "reduction_small_coefficients"          -> "reduction Small Coefficients"
      [] r = "eliminate_implied_bounds"              -> "Eliminate Implied Bounds"
      [] r = "eliminate_redundant_rows"              -> "Eliminate Redundant Rows"
      [] r = "eliminate_kton_equalities"             -> "Eliminate Singleton Equalities"
      [] r = "eliminate_singleton_equalities"        -> "Eliminate Kton Equalities"
      [] r = "eliminate_singleton_inequalities"      -> "Eliminate Singleton Inequalities"
      [] r = "eliminate_dual_singleton_inequalities" -> "Eliminate Dual Singleton Inequalities"
      [] r = "eliminate_redundant_columns"           -> "Eliminate Redundant Columns"
      [] r = "eliminate_zero_rows"                   -> "Eliminate Zero Rows"
      [] r = "eliminate_zero_columns"                -> "Eliminate Zero Columns"]

\* The label each rule appends to the operation table.
Label == [r \in Rules |->
    CASE r = "reduction_small_coefficients"          -> "reduction Small Coefficients"
      [] r = "eliminate_implied_bounds"              -> "Eliminate Implied Bounds"
      [] r = "eliminate_redundant_rows"              -> "Eliminate Redundant Rows"
      [] r = "eliminate_kton_equalities"             -> "Eliminate Kton Equalities"
      [] r = "eliminate_singleton_equalities"        -> "Eliminate Singleton Equalities"
      [] r = "eliminate_singleton_inequalities"      -> "Eliminate Singleton Inequalities"
      [] r = "eliminate_dual_singleton_inequalities" -> "Eliminate Dual Singleton Inequalities"
      [] r = "eliminate_redundant_columns"           -> "Eliminate Redundant Columns"
      [] r = "eliminate_zero_rows"                   -> "Eliminate Zero Rows"
      [] r = "eliminate_zero_columns"                -> "Eliminate Zero Columns"]

Position(r) == CHOOSE i \in DOMAIN Order : Order[i] = r

\* As Following, with the flags not looked at.
FollowingUnconditional(p) ==
    IF p >= Len(Order) THEN "done" ELSE Order[p + 1]

\* The chain of `if self.perform_...:` tests: the first enabled rule after
\* position p, or "done" when the orchestrator reaches its return.
Following(p) ==
    LET later == {i \in DOMAIN Order : i > p /\ Order[i] \in perform}
    IN  IF later = {} THEN "done"
        ELSE Order[CHOOSE i \in later : \A j \in later : i <= j]

After(r) == Following(Position(r))

\* self.operation_table.append((label, len(cons_senses), len(variable_names), A.nnz))
TableEntry(label, senses, names, M) == <<label, Len(senses), Len(names), nnz(M)>>

-----------------------------------------------------------------------------
(* The journal and the warnings *)

\* self.change_dictionary[key] = rec   (a defaultdict: keys appear when written)
Journal(dict, key, rec) == (key :> rec) @@ dict

\* warnings.warn(..., RuntimeWarning), n times, of one kind
Warn(w, kind, n) == [w EXCEPT ![kind] = @ + n]

NoWarnings == [Infeasibility |-> 0, Unboundedness |-> 0]

-----------------------------------------------------------------------------
(* eliminate_zero_rows *)

is_zero_row(M, i) == NonZero(M.A[i]) = {}

\* The rows the loop reaches: it stops where self.b[i] is read past the end.
zero_rows_reached(M, rhs) ==
    {i \in 1..NumRows(M) :
        \A h \in 1..i : is_zero_row(M, h) => h <= Len(rhs)}

zero_rows_raises(M, rhs) == zero_rows_reached(M, rhs) # 1..NumRows(M)

\* As zero_rows_to_delete, with every zero row marked.
zero_rows_to_delete_all(M, rhs) ==
    {i \in zero_rows_reached(M, rhs) : is_zero_row(M, i)}

\* As zero_rows_to_delete, with b[i] < 0 for b[i] <= 0.
zero_rows_to_delete_strict(M, rhs) ==
    {i \in zero_rows_reached(M, rhs) : is_zero_row(M, i) /\ IsNeg(rhs[i])}

zero_rows_to_delete(M, rhs) ==
    {i \in zero_rows_reached(M, rhs) : is_zero_row(M, i) /\ RLe(rhs[i], Zero)}

zero_rows_infeasible(M, rhs) ==
    {i \in zero_rows_reached(M, rhs) : is_zero_row(M, i) /\ ~RLe(rhs[i], Zero)}

eliminate_zero_rows ==
    /\ pc = "eliminate_zero_rows"
    /\ LET to_delete == SetToSeq(zero_rows_to_delete(A, b))
           to_delete_original == [p \in DOMAIN to_delete |->
                                      original_row_index[to_delete[p]]]
           order == SortedReverse(to_delete)
       IN  /\ warned' = Warn(warned, "Infeasibility",
                             Cardinality(zero_rows_infeasible(A, b)))
           /\ IF zero_rows_raises(A, b)
              THEN /\ pc' = "raised"
                   /\ UNCHANGED <<A, b, cons_senses, original_row_index,
                                  change_dictionary, operation_table>>
              ELSE /\ A' = DeleteRows(A, Range(to_delete))
                   /\ b' = DelLoop(b, order).list
                   /\ cons_senses' = DelLoop(cons_senses, order).list
                   /\ original_row_index' = DelLoop(original_row_index, order).list
                   /\ change_dictionary' =
                          Journal(change_dictionary, "eliminate_zero_rows",
                                  [deleted_rows_indices |-> to_delete_original])
                   /\ operation_table' =
                          Append(operation_table,
                                 TableEntry(Label["eliminate_zero_rows"],
                                            cons_senses', variable_names, A'))
                   /\ pc' = After("eliminate_zero_rows")
    /\ UNCHANGED <<model, perform, k, c, co, lb, ub, lb_ndarray, of_sense,
                   variable_names, original_column_index, solution>>

-----------------------------------------------------------------------------
(* eliminate_zero_columns *)

\* all(c == 0 for c in col)
is_zero_column(M, j) == \A i \in 1..NumRows(M) : IsZero(M.A[i][j])

\* The columns the loop reaches: it stops where self.c[j] is read past the end.
zero_columns_reached(M, cost) ==
    {j \in 1..NumCols(M) :
        \A h \in 1..j : is_zero_column(M, h) => h <= Len(cost)}

zero_columns_raises(M, cost) == zero_columns_reached(M, cost) # 1..NumCols(M)

\* Variant: classifies a zero column as redundant only when c_j > 0.
zero_columns_to_delete_strict(M, cost) ==
    {j \in zero_columns_reached(M, cost) :
        is_zero_column(M, j) /\ RLt(Zero, cost[j])}

zero_columns_to_delete(M, cost) ==
    {j \in zero_columns_reached(M, cost) :
        is_zero_column(M, j) /\ RLe(Zero, cost[j])}

zero_columns_unbounded(M, cost) ==
    {j \in zero_columns_reached(M, cost) :
        is_zero_column(M, j) /\ ~RLe(Zero, cost[j])}

eliminate_zero_columns ==
    /\ pc = "eliminate_zero_columns"
    /\ LET to_delete == SetToSeq(zero_columns_to_delete(A, c))
           to_delete_original == [p \in DOMAIN to_delete |->
                                      original_column_index[to_delete[p]]]
           sol == [n \in {variable_names[j] : j \in Range(to_delete)} |-> Zero]
           order == SortedReverse(to_delete)
       IN  /\ warned' = Warn(warned, "Unboundedness",
                             Cardinality(zero_columns_unbounded(A, c)))
           /\ IF zero_columns_raises(A, c)
              THEN /\ pc' = "raised"
                   /\ UNCHANGED <<A, c, lb, ub, lb_ndarray, variable_names,
                                  original_column_index, change_dictionary,
                                  operation_table>>
              ELSE /\ A' = DeleteCols(A, Range(to_delete))
                   /\ c' = DelLoop(c, order).list
                   /\ variable_names' = DelLoop(variable_names, order).list
                   /\ lb' = NpDelete(lb, Range(to_delete))
                   /\ ub' = NpDelete(ub, Range(to_delete))
                   /\ lb_ndarray' = (lb_ndarray \/ to_delete # <<>>)
                   /\ original_column_index' =
                          DelLoop(original_column_index, order).list
                   /\ change_dictionary' =
                          Journal(change_dictionary, "eliminate_zero_columns",
                                  [deleted_columns |-> to_delete_original,
                                   solution |-> sol])
                   /\ operation_table' =
                          Append(operation_table,
                                 TableEntry(Label["eliminate_zero_columns"],
                                            cons_senses, variable_names', A'))
                   /\ pc' = After("eliminate_zero_columns")
    /\ UNCHANGED <<model, perform, k, b, co, of_sense, cons_senses,
                   original_row_index, solution>>

-----------------------------------------------------------------------------
(* eliminate_singleton_equalities: one action per turn of its while loop *)

\* dict[key] of the defaultdict: an empty record until something is written
Entry(dict, key) == IF key \in DOMAIN dict THEN dict[key] ELSE <<>>

Min(S) == CHOOSE x \in S : \A y \in S : x <= y
Max(S) == CHOOSE x \in S : \A y \in S : y <= x

\* np.logical_and(single_nonzero, has_negative_counterpart)
singleton_valid_rows(M, rhs) ==
    {i \in 1..NumRows(M) :
        count_nonzero(M.A[i]) = 1 /\ has_negative_counterpart(M, rhs, i)}

\* As singleton_x_k, without the division by the coefficient.
singleton_x_k_unscaled(M, rhs, i) == rhs[i]

\* x_k = self.b[first_singleton_index] / self.A.A[first_singleton_index, k_index]
singleton_x_k(M, rhs, i) == RDiv(rhs[i], M.A[i][Min(NonZero(M.A[i]))])

\* As singleton_updated_b, with the column added instead of subtracted.
singleton_updated_b_added(M, rhs, kc, x) ==
    [i \in 1..NumRows(M) |-> RAdd(rhs[i], RMul(M.A[i][kc], x))]

\* self.b = self.b - self.A.A[:, k_index] * x_k
singleton_updated_b(M, rhs, kc, x) ==
    [i \in 1..NumRows(M) |-> RSub(rhs[i], RMul(M.A[i][kc], x))]

\* if self.c[k_index] != 0: self.co = self.co - self.c[k_index] * x_k
singleton_updated_co(const, cost, kc, x) ==
    IF ~IsZero(cost[kc]) THEN RSub(const, RMul(cost[kc], x)) ELSE const

singleton_pass ==
    /\ pc = "eliminate_singleton_equalities"
    /\ ~DetectorRaises(A, b)
    /\ singleton_valid_rows(A, b) # {}
    /\ LET first_singleton_index == Min(singleton_valid_rows(A, b))
           k_index == Min(NonZero(A.A[first_singleton_index]))
           x_k == singleton_x_k(A, b, first_singleton_index)
       IN  /\ RLe(Zero, x_k)
           /\ \E mate \in Mates(A, b, first_singleton_index) :
              LET index_rows_to_delete == <<first_singleton_index, mate>>
                  index_original_rows_to_delete ==
                      <<original_row_index[first_singleton_index],
                        original_row_index[mate]>>
                  var_to_del == variable_names[k_index]
                  order == SortedReverse(index_rows_to_delete)
                  was == Entry(change_dictionary, "eliminate_singleton_equalities")
              IN  /\ solution' = (var_to_del :> x_k) @@ solution
                  /\ b' = DelLoop(singleton_updated_b(A, b, k_index, x_k), order).list
                  /\ cons_senses' = DelLoop(cons_senses, order).list
                  /\ original_row_index' = DelLoop(original_row_index, order).list
                  /\ co' = singleton_updated_co(co, c, k_index, x_k)
                  /\ A' = DeleteCols(DeleteRows(A, Range(index_rows_to_delete)),
                                     {k_index})
                  /\ c' = DelAt(c, k_index)
                  /\ lb' = NpDelete(lb, {k_index})
                  /\ ub' = NpDelete(ub, {k_index})
                  /\ lb_ndarray' = TRUE
                  /\ variable_names' = DelAt(variable_names, k_index)
                  /\ original_column_index' = DelAt(original_column_index, k_index)
                  /\ change_dictionary' =
                         Journal(change_dictionary, "eliminate_singleton_equalities",
                             (var_to_del :>
                                 [deleted_variables_indices |->
                                      original_column_index[k_index],
                                  deleted_rows_indices |->
                                      index_original_rows_to_delete]) @@ was)
    /\ UNCHANGED <<model, perform, k, of_sense, operation_table, warned, pc>>

\* x_k < 0: the warning is emitted, found_singleton stays True and nothing
\* else changes, so the while loop takes the same turn again.
singleton_infeasible ==
    /\ pc = "eliminate_singleton_equalities"
    /\ ~DetectorRaises(A, b)
    /\ singleton_valid_rows(A, b) # {}
    /\ ~RLe(Zero, singleton_x_k(A, b, Min(singleton_valid_rows(A, b))))
    /\ warned' = IF warned.Infeasibility < MaxWarnings
                 THEN Warn(warned, "Infeasibility", 1) ELSE warned
    /\ UNCHANGED <<model, perform, k, lp_vars, change_dictionary,
                   operation_table, solution, pc>>

\* No row is left to process: the loop ends and the rule returns.
singleton_return ==
    /\ pc = "eliminate_singleton_equalities"
    /\ IF DetectorRaises(A, b)
       THEN /\ pc' = "raised"
            /\ UNCHANGED <<change_dictionary, operation_table, solution>>
       ELSE /\ singleton_valid_rows(A, b) = {}
            /\ change_dictionary' =
                   Journal(change_dictionary, "eliminate_singleton_equalities",
                       ("solutions" :> solution)
                           @@ Entry(change_dictionary,
                                    "eliminate_singleton_equalities"))
            /\ operation_table' =
                   Append(operation_table,
                          TableEntry(Label["eliminate_singleton_equalities"],
                                     cons_senses, variable_names, A))
            /\ solution' = <<>>
            /\ pc' = After("eliminate_singleton_equalities")
    /\ UNCHANGED <<model, perform, k, lp_vars, warned>>

-----------------------------------------------------------------------------
(* eliminate_kton_equalities: one action per turn of its while loop *)

\* np.logical_and(k_nonzero, has_negative_counterpart)
kton_valid_rows(M, rhs, kk) ==
    {i \in 1..NumRows(M) :
        count_nonzero(M.A[i]) = kk /\ has_negative_counterpart(M, rhs, i)}

\* As kton_pivot, with the first nonzero column taken.
kton_pivot_first(row) == Min(NonZero(row))

\* kton_column = np.nonzero(kton_row)[0][-1]
kton_pivot(row) == Max(NonZero(row))

\* self.A.A[first, :] / self.A.A[first, kton_column]
kton_scaled_row(M, f, kc) ==
    [j \in 1..NumCols(M) |-> RDiv(M.A[f][j], M.A[f][kc])]

\* self.b[first] / self.A.A[first, kton_column]
kton_scaled_rhs(M, rhs, f, kc) == RDiv(rhs[f], M.A[f][kc])

\* The scaling of row f and the loop over the remaining rows of A.
kton_eliminated_A(M, f, kc) ==
    [M EXCEPT !.A =
        [i \in 1..NumRows(M) |->
            IF i = f THEN kton_scaled_row(M, f, kc)
            ELSE [j \in 1..NumCols(M) |->
                     RSub(M.A[i][j],
                          RMul(M.A[i][kc], kton_scaled_row(M, f, kc)[j]))]]]

\* ... and the same loop over b.
kton_eliminated_b(M, rhs, f, kc) ==
    [i \in 1..NumRows(M) |->
        IF i = f THEN kton_scaled_rhs(M, rhs, f, kc)
        ELSE RSub(rhs[i], RMul(M.A[i][kc], kton_scaled_rhs(M, rhs, f, kc)))]

\* self.co += self.c[kton_column] * self.b[first]      (b[first] is scaled)
kton_updated_co(const, cost, M, rhs, f, kc) ==
    RAdd(const, RMul(cost[kc], kton_scaled_rhs(M, rhs, f, kc)))

\* self.c -= self.c[kton_column] * self.A.A[first, :]  (row first is scaled)
kton_updated_c(cost, M, f, kc) ==
    [j \in 1..NumCols(M) |->
        RSub(cost[j], RMul(cost[kc], kton_scaled_row(M, f, kc)[j]))]

\* self.A[first, :] = -1 * self.A[first, :]
NegateRow(M, f) ==
    [M EXCEPT !.A[f] = [j \in 1..NumCols(M) |-> RNeg(M.A[f][j])]]

kton_pass ==
    /\ pc = "eliminate_kton_equalities"
    /\ ~DetectorRaises(A, b)
    /\ kton_valid_rows(A, b, k) # {}
    /\ LET first_kton_index == Min(kton_valid_rows(A, b, k))
           kton_row == A.A[first_kton_index]
           kton_column == kton_pivot(kton_row)
           var_to_del == variable_names[kton_column]
           was == Entry(change_dictionary, "eliminate_kton_equalities")
       IN  \E mate \in Mates(A, b, first_kton_index) :
           LET index_original_rows_to_delete ==
                   <<original_row_index[first_kton_index],
                     original_row_index[mate]>>
               eliminated == kton_eliminated_A(A, first_kton_index, kton_column)
               b1 == kton_eliminated_b(A, b, first_kton_index, kton_column)
               sol == (var_to_del :>
                          [lhs |-> kton_row,
                           rhs |-> b[first_kton_index],
                           \* the list object itself, not a copy of it
                           variables |-> "self.variable_names"]) @@ solution
           IN  /\ solution' = sol
               /\ co' = kton_updated_co(co, c, A, b, first_kton_index, kton_column)
               /\ c' = DelAt(kton_updated_c(c, A, first_kton_index, kton_column),
                             kton_column)
               /\ A' = DeleteRows(
                           NegateRow(DeleteCols(eliminated, {kton_column}),
                                     first_kton_index),
                           {mate})
               /\ b' = DelAt([b1 EXCEPT ![first_kton_index] = RNeg(@)], mate)
               /\ lb' = NpDelete(lb, {kton_column})
               /\ ub' = NpDelete(ub, {kton_column})
               /\ lb_ndarray' = TRUE
               /\ variable_names' = DelAt(variable_names, kton_column)
               /\ original_column_index' = DelAt(original_column_index, kton_column)
               /\ cons_senses' = DelAt(cons_senses, mate)
               /\ original_row_index' = DelAt(original_row_index, mate)
               /\ change_dictionary' =
                      Journal(change_dictionary, "eliminate_kton_equalities",
                          ("solutions" :> sol)
                          @@ (var_to_del :>
                                 [deleted_variables_indices |->
                                      original_column_index[kton_column],
                                  deleted_rows_indices |->
                                      index_original_rows_to_delete])
                          @@ was)
    /\ UNCHANGED <<model, perform, k, of_sense, operation_table, warned, pc>>

kton_return ==
    /\ pc = "eliminate_kton_equalities"
    /\ IF DetectorRaises(A, b)
       THEN /\ pc' = "raised"
            /\ UNCHANGED <<operation_table, solution>>
       ELSE /\ kton_valid_rows(A, b, k) = {}
            /\ operation_table' =
                   Append(operation_table,
                          TableEntry(Label["eliminate_kton_equalities"],
                                     cons_senses, variable_names, A))
            /\ solution' = <<>>
            /\ pc' = After("eliminate_kton_equalities")
    /\ UNCHANGED <<model, perform, k, lp_vars, change_dictionary, warned>>

-----------------------------------------------------------------------------
(* eliminate_singleton_inequalities *)

\* np.logical_and(single_nonzero, negated_list)
inequality_valid_rows(M, rhs) ==
    {i \in 1..NumRows(M) :
        count_nonzero(M.A[i]) = 1 /\ ~has_negative_counterpart(M, rhs, i)}

\* The branch of the if / elif chain a valid row takes.
inequality_case(M, rhs, i) ==
    LET A_ik == M.A[i][Min(NonZero(M.A[i]))]
        b_i  == rhs[i]
    IN  CASE IsPos(A_ik) /\ IsNeg(b_i)  -> "row_journaled"
          [] IsNeg(A_ik) /\ IsPos(b_i)  -> "warn"
          [] IsPos(A_ik) /\ IsZero(b_i) -> "row"
          [] IsNeg(A_ik) /\ IsZero(b_i) -> "row_and_variable"
          [] OTHER                      -> "none"

\* to_delete_constraint, in the order of the loop
inequality_rows(M, rhs) ==
    SetToSeq({i \in inequality_valid_rows(M, rhs) :
                 inequality_case(M, rhs, i)
                     \in {"row_journaled", "row", "row_and_variable"}})

\* the rows whose original index is appended to to_delete_constraint_original
inequality_rows_journaled(M, rhs) ==
    SetToSeq({i \in inequality_valid_rows(M, rhs) :
                 inequality_case(M, rhs, i)
                     \in {"row_journaled", "row_and_variable"}})

\* to_delete_variable, in the order of the loop: one entry per row, so a
\* column is listed once for each row that names it.
inequality_variables(M, rhs) ==
    LET rows == SetToSeq({i \in inequality_valid_rows(M, rhs) :
                    inequality_case(M, rhs, i) = "row_and_variable"})
    IN  [p \in DOMAIN rows |-> Min(NonZero(M.A[rows[p]]))]

\* for index in sorted(to_delete_variable, reverse=True):
\*     del self.c[index]; del self.lb[index]; del self.ub[index]; ...
\* An IndexError of del self.c[index] ends the loop; so does the ValueError
\* of del self.lb[index] when lb is a numpy array, after c lost its entry.
RECURSIVE inequality_del_columns(_, _, _)
inequality_del_columns(st, idx, is_array) ==
    IF idx = <<>> THEN st
    ELSE IF Head(idx) > Len(st.c) THEN [st EXCEPT !.raised = TRUE]
    ELSE IF is_array
         THEN [st EXCEPT !.c = DelAt(@, Head(idx)), !.raised = TRUE]
    ELSE inequality_del_columns(
             [c |-> DelAt(st.c, Head(idx)),
              lb |-> DelAt(st.lb, Head(idx)),
              ub |-> DelAt(st.ub, Head(idx)),
              variable_names |-> DelAt(st.variable_names, Head(idx)),
              original_column_index |-> DelAt(st.original_column_index, Head(idx)),
              raised |-> FALSE],
             Tail(idx), is_array)

eliminate_singleton_inequalities ==
    /\ pc = "eliminate_singleton_inequalities"
    /\ IF DetectorRaises(A, b)
       THEN /\ pc' = "raised"
            /\ UNCHANGED <<lp_vars, change_dictionary, operation_table, warned>>
       ELSE LET to_delete_constraint == inequality_rows(A, b)
                to_delete_variable == inequality_variables(A, b)
                journaled == inequality_rows_journaled(A, b)
                warnings == {i \in inequality_valid_rows(A, b) :
                                inequality_case(A, b, i) = "warn"}
                cols == inequality_del_columns(
                            [c |-> c, lb |-> lb, ub |-> ub,
                             variable_names |-> variable_names,
                             original_column_index |-> original_column_index,
                             raised |-> FALSE],
                            SortedReverse(to_delete_variable), lb_ndarray)
                order == SortedReverse(to_delete_constraint)
            IN  /\ warned' = Warn(warned, "Infeasibility", Cardinality(warnings))
                /\ A' = DeleteCols(DeleteRows(A, Range(to_delete_constraint)),
                                   Range(to_delete_variable))
                /\ b' = DelLoop(b, order).list
                /\ cons_senses' = DelLoop(cons_senses, order).list
                /\ original_row_index' = DelLoop(original_row_index, order).list
                /\ c' = cols.c
                /\ lb' = cols.lb
                /\ ub' = cols.ub
                /\ variable_names' = cols.variable_names
                /\ original_column_index' = cols.original_column_index
                /\ UNCHANGED <<co, lb_ndarray, of_sense>>
                /\ IF cols.raised
                   THEN /\ pc' = "raised"
                        /\ UNCHANGED <<change_dictionary, operation_table>>
                   ELSE /\ change_dictionary' =
                               Journal(change_dictionary,
                                   "eliminate_singleton_inequalities",
                                   [deleted_variables_indices |->
                                        [p \in DOMAIN to_delete_variable |->
                                            original_column_index[to_delete_variable[p]]],
                                    deleted_rows_indices |->
                                        [p \in DOMAIN journaled |->
                                            original_row_index[journaled[p]]]])
                        /\ operation_table' =
                               Append(operation_table,
                                   TableEntry(Label["eliminate_singleton_inequalities"],
                                              cons_senses', variable_names', A'))
                        /\ pc' = After("eliminate_singleton_inequalities")
    /\ UNCHANGED <<model, perform, k, solution>>

-----------------------------------------------------------------------------
(* eliminate_dual_singleton_inequalities *)

\* valid_columns = nonzero_count_per_column == 1
dual_valid_column(M, j) ==
    Cardinality({i \in 1..NumRows(M) : ~IsZero(M.A[i][j])}) = 1

\* r_index = np.nonzero(singleton_column)[0][0]
dual_row_of(M, j) == Min({i \in 1..NumRows(M) : ~IsZero(M.A[i][j])})

\* The branch of the if / elif chain a valid column takes.
dual_case(M, cost, j) ==
    LET A_ik == M.A[dual_row_of(M, j)][j]
        c_j  == cost[j]
    IN  CASE IsPos(A_ik) /\ IsNeg(c_j)  -> "warn"
          [] IsNeg(A_ik) /\ IsPos(c_j)  -> "variable"
          [] IsPos(A_ik) /\ IsZero(c_j) -> "variable_and_row"
          [] IsNeg(A_ik) /\ IsZero(c_j) -> "variable"
          [] OTHER                      -> "none"

\* self.c[j] or self.original_row_index[r_index] is read past the end.
dual_index_error(M, cost, ori, j) ==
    /\ dual_valid_column(M, j)
    /\ \/ j > Len(cost)
       \/ /\ dual_case(M, cost, j) = "variable_and_row"
          /\ dual_row_of(M, j) > Len(ori)

dual_reached(M, cost, ori) ==
    {j \in 1..NumCols(M) : \A h \in 1..j : ~dual_index_error(M, cost, ori, h)}

dual_raises(M, cost, ori) == dual_reached(M, cost, ori) # 1..NumCols(M)

\* to_delete_variable, in the order of the loop
dual_variables(M, cost, ori) ==
    SetToSeq({j \in dual_reached(M, cost, ori) :
                 /\ dual_valid_column(M, j)
                 /\ dual_case(M, cost, j) \in {"variable", "variable_and_row"}})

\* to_delete_constraint, in the order of the loop: one entry per column, so
\* a row is listed once for each column that names it.
dual_rows(M, cost, ori) ==
    LET cols == SetToSeq({j \in dual_reached(M, cost, ori) :
                    /\ dual_valid_column(M, j)
                    /\ dual_case(M, cost, j) = "variable_and_row"})
    IN  [p \in DOMAIN cols |-> dual_row_of(M, cols[p])]

dual_warnings(M, cost, ori) ==
    {j \in dual_reached(M, cost, ori) :
        dual_valid_column(M, j) /\ dual_case(M, cost, j) = "warn"}

eliminate_dual_singleton_inequalities ==
    /\ pc = "eliminate_dual_singleton_inequalities"
    /\ warned' = Warn(warned, "Infeasibility",
                      Cardinality(dual_warnings(A, c, original_row_index)))
    /\ IF dual_raises(A, c, original_row_index)
       THEN /\ pc' = "raised"
            /\ UNCHANGED <<lp_vars, change_dictionary, operation_table>>
       ELSE LET to_delete_variable == dual_variables(A, c, original_row_index)
                to_delete_constraint == dual_rows(A, c, original_row_index)
                order == SortedReverse(to_delete_constraint)
                rows_raise == DelLoop(b, order).raised
                corder == SortedReverse(to_delete_variable)
            IN  /\ A' = DeleteCols(DeleteRows(A, Range(to_delete_constraint)),
                                   Range(to_delete_variable))
                /\ b' = DelLoop(b, order).list
                /\ cons_senses' = DelLoop(cons_senses, order).list
                /\ original_row_index' = DelLoop(original_row_index, order).list
                /\ UNCHANGED <<co, of_sense>>
                /\ IF rows_raise
                   THEN /\ pc' = "raised"
                        /\ UNCHANGED <<c, lb, ub, lb_ndarray, variable_names,
                                       original_column_index, change_dictionary,
                                       operation_table>>
                   ELSE /\ c' = DelLoop(c, corder).list
                        /\ variable_names' = DelLoop(variable_names, corder).list
                        /\ original_column_index' =
                               DelLoop(original_column_index, corder).list
                        /\ lb' = NpDelete(lb, Range(to_delete_variable))
                        /\ ub' = NpDelete(ub, Range(to_delete_variable))
                        /\ lb_ndarray' = TRUE
                        /\ change_dictionary' =
                               Journal(change_dictionary,
                                   "eliminate_dual_singleton_inequalities",
                                   [deleted_variables_indices |->
                                        [p \in DOMAIN to_delete_variable |->
                                            original_column_index[to_delete_variable[p]]],
                                    deleted_rows_indices |->
                                        [p \in DOMAIN to_delete_constraint |->
                                            original_row_index[to_delete_constraint[p]]]])
                        /\ operation_table' =
                               Append(operation_table,
                                   TableEntry(Label["eliminate_dual_singleton_inequalities"],
                                              cons_senses', variable_names', A'))
                        /\ pc' = After("eliminate_dual_singleton_inequalities")
    /\ UNCHANGED <<model, perform, k, solution>>

-----------------------------------------------------------------------------
(* eliminate_redundant_columns *)

\* b_zero & has_negative_counterpart & (non_negative_elements | non_positive_elements)
combined_condition(M, rhs, i) ==
    /\ IsZero(rhs[i])
    /\ has_negative_counterpart(M, rhs, i)
    /\ \/ \A j \in 1..NumCols(M) : ~IsNeg(M.A[i][j])
       \/ \A j \in 1..NumCols(M) : ~IsPos(M.A[i][j])

redundant_columns_rows(M, rhs) ==
    SetToSeq({i \in 1..NumRows(M) : combined_condition(M, rhs, i)})

\* to_delete_variable: the nonzero columns of the rows above, each once, in
\* the order in which the loops meet them.
RECURSIVE redundant_columns_variables(_, _, _)
redundant_columns_variables(M, rows, seen) ==
    IF rows = <<>> THEN seen
    ELSE LET new == SetToSeq(NonZero(M.A[Head(rows)]) \ Range(seen))
         IN  redundant_columns_variables(M, Tail(rows), seen \o new)

eliminate_redundant_columns ==
    /\ pc = "eliminate_redundant_columns"
    /\ LET to_delete_constraint == redundant_columns_rows(A, b)
           to_delete_variable ==
               redundant_columns_variables(A, to_delete_constraint, <<>>)
           order == SortedReverse(to_delete_constraint)
           corder == SortedReverse(to_delete_variable)
       IN  IF \/ DetectorRaises(A, b)
              \* self.original_column_index[index] is read past the end
              \/ \E j \in Range(to_delete_variable) :
                     j > Len(original_column_index)
           THEN /\ pc' = "raised"
                /\ UNCHANGED <<lp_vars, change_dictionary, operation_table>>
           ELSE /\ A' = DeleteCols(DeleteRows(A, Range(to_delete_constraint)),
                                   Range(to_delete_variable))
                /\ b' = DelLoop(b, order).list
                /\ cons_senses' = DelLoop(cons_senses, order).list
                /\ original_row_index' = DelLoop(original_row_index, order).list
                /\ lb' = NpDelete(lb, Range(to_delete_variable))
                /\ ub' = NpDelete(ub, Range(to_delete_variable))
                /\ lb_ndarray' = TRUE
                /\ c' = DelLoop(c, corder).list
                /\ variable_names' = DelLoop(variable_names, corder).list
                /\ original_column_index' =
                       DelLoop(original_column_index, corder).list
                /\ UNCHANGED <<co, of_sense>>
                /\ change_dictionary' =
                       Journal(change_dictionary, "eliminate_redundant_columns",
                           [deleted_variables_indices |->
                                [p \in DOMAIN to_delete_variable |->
                                    original_column_index[to_delete_variable[p]]],
                            deleted_rows_indices |->
                                [p \in DOMAIN to_delete_constraint |->
                                    original_row_index[to_delete_constraint[p]]]])
                /\ operation_table' =
                       Append(operation_table,
                           TableEntry(Label["eliminate_redundant_columns"],
                                      cons_senses', variable_names', A'))
                /\ pc' = After("eliminate_redundant_columns")
    /\ UNCHANGED <<model, perform, k, solution, warned>>

-----------------------------------------------------------------------------
(* get_row_activities and eliminate_implied_bounds *)

RECURSIVE RSum(_)
RSum(s) == IF s = <<>> THEN Zero ELSE RAdd(Head(s), RSum(Tail(s)))

\* INF[i]: a_ij * l_j for a_ij > 0 and a_ij * u_j for a_ij < 0
min_activity(M, lo, up, i) ==
    RSum([j \in 1..NumCols(M) |->
             IF IsPos(M.A[i][j]) THEN RMul(M.A[i][j], lo[j])
             ELSE IF IsNeg(M.A[i][j]) THEN RMul(M.A[i][j], up[j])
             ELSE Zero])

\* SUP[i]: a_ij * u_j for a_ij > 0 and a_ij * l_j for a_ij < 0
max_activity(M, lo, up, i) ==
    RSum([j \in 1..NumCols(M) |->
             IF IsPos(M.A[i][j]) THEN RMul(M.A[i][j], up[j])
             ELSE IF IsNeg(M.A[i][j]) THEN RMul(M.A[i][j], lo[j])
             ELSE Zero])

\* if self.b[i] >= infinity
implied_vacuous(rhs, i) == RLe(infinity, rhs[i])

\* if INF[i] > (self.b[i] + feasibility_tolerance)
implied_violated(M, rhs, lo, up, i) ==
    RLt(RAdd(rhs[i], feasibility_tolerance), min_activity(M, lo, up, i))

\* if SUP[i] < (self.b[i] + feasibility_tolerance)
implied_infeasible(M, rhs, lo, up, i) ==
    RLt(max_activity(M, lo, up, i), RAdd(rhs[i], feasibility_tolerance))

\* to_delete_constraint: the two tests are separate ifs, each appends i.
RECURSIVE implied_rows(_, _, _, _, _)
implied_rows(M, rhs, lo, up, i) ==
    IF i > NumRows(M) THEN <<>>
    ELSE (IF implied_vacuous(rhs, i) THEN <<i>> ELSE <<>>)
         \o (IF implied_violated(M, rhs, lo, up, i) THEN <<i>> ELSE <<>>)
         \o implied_rows(M, rhs, lo, up, i + 1)

eliminate_implied_bounds ==
    /\ pc = "eliminate_implied_bounds"
    /\ LET to_delete_constraint == implied_rows(A, b, lb, ub, 1)
           order == SortedReverse(to_delete_constraint)
           warnings == {i \in 1..NumRows(A) : implied_infeasible(A, b, lb, ub, i)}
       IN  /\ warned' = Warn(warned, "Infeasibility", Cardinality(warnings))
           /\ A' = DeleteRows(A, Range(to_delete_constraint))
           /\ b' = DelLoop(b, order).list
           /\ cons_senses' = DelLoop(cons_senses, order).list
           /\ original_row_index' = DelLoop(original_row_index, order).list
           /\ IF DelLoop(b, order).raised
              THEN /\ pc' = "raised"
                   /\ UNCHANGED <<change_dictionary, operation_table>>
              ELSE /\ change_dictionary' =
                          Journal(change_dictionary, "eliminate_implied_bounds",
                              [deleted_rows_indices |->
                                   [p \in DOMAIN to_delete_constraint |->
                                       original_row_index[to_delete_constraint[p]]]])
                   /\ operation_table' =
                          Append(operation_table,
                              TableEntry(Label["eliminate_implied_bounds"],
                                         cons_senses', variable_names, A'))
                   /\ pc' = After("eliminate_implied_bounds")
    /\ UNCHANGED <<model, perform, k, c, co, lb, ub, lb_ndarray, of_sense,
                   variable_names, original_column_index, solution>>

-----------------------------------------------------------------------------
(* eliminate_redundant_rows *)

\* The possible indices_list vectors: for each row one of its mates, or 0
\* (None) for a row without one.
RECURSIVE indices_lists(_, _, _)
indices_lists(M, rhs, m) ==
    IF m = 0 THEN {<<>>}
    ELSE {Append(s, x) : s \in indices_lists(M, rhs, m - 1),
                         x \in IF Mates(M, rhs, m) = {} THEN {0}
                               ELSE Mates(M, rhs, m)}

\* The loop over the constraints, from row i on; `marked` is to_delete_constraint.
RECURSIVE redundant_rows(_, _, _, _, _)
redundant_rows(M, rhs, indices_list, i, marked) ==
    IF i > NumRows(M) THEN marked
    ELSE IF i \in Range(marked) \/ ~has_linear_dependency(M, rhs, i)
         THEN redundant_rows(M, rhs, indices_list, i + 1, marked)
    ELSE LET new == SetToSeq({j \in dependent_rows(M, rhs, i) :
                                 j # indices_list[i] /\ j \notin Range(marked)})
         IN  redundant_rows(M, rhs, indices_list, i + 1, marked \o new)

eliminate_redundant_rows ==
    /\ pc = "eliminate_redundant_rows"
    /\ IF DetectorRaises(A, b)
       THEN /\ pc' = "raised"
            /\ UNCHANGED <<A, b, cons_senses, original_row_index,
                           change_dictionary, operation_table>>
       ELSE \E indices_list \in indices_lists(A, b, NumRows(A)) :
            LET to_delete_constraint == redundant_rows(A, b, indices_list, 1, <<>>)
                order == SortedReverse(to_delete_constraint)
            IN  /\ A' = DeleteRows(A, Range(to_delete_constraint))
                /\ b' = DelLoop(b, order).list
                /\ cons_senses' = DelLoop(cons_senses, order).list
                /\ original_row_index' = DelLoop(original_row_index, order).list
                /\ change_dictionary' =
                       Journal(change_dictionary, "eliminate_redundant_rows",
                           [deleted_rows_indices |->
                                [p \in DOMAIN to_delete_constraint |->
                                    original_row_index[to_delete_constraint[p]]]])
                /\ operation_table' =
                       Append(operation_table,
                           TableEntry(Label["eliminate_redundant_rows"],
                                      cons_senses', variable_names, A'))
                /\ pc' = After("eliminate_redundant_rows")
    /\ UNCHANGED <<model, perform, k, c, co, lb, ub, lb_ndarray, of_sense,
                   variable_names, original_column_index, solution, warned>>

-----------------------------------------------------------------------------
(* reduction_small_coefficients *)

reduction_small_coefficients ==
    /\ pc = "reduction_small_coefficients"
    /\ A' = matrix_sparsification(threshold, normalize_features(A), A)
    /\ operation_table' =
           Append(operation_table,
               TableEntry(Label["reduction_small_coefficients"],
                          cons_senses, variable_names, A'))
    /\ pc' = After("reduction_small_coefficients")
    /\ UNCHANGED <<model, perform, k, b, c, co, lb, ub, lb_ndarray, of_sense,
                   cons_senses, variable_names, original_row_index,
                   original_column_index, change_dictionary, solution, warned>>

-----------------------------------------------------------------------------
(* load_model_matrices, first statement of the orchestrator *)

load_model_matrices ==
    /\ pc = "new"
    /\ A' = model.A
    /\ b' = model.b
    /\ c' = model.c
    /\ co' = model.co
    /\ lb' = model.lb
    /\ ub' = model.ub
    /\ lb_ndarray' = model.lb_ndarray
    /\ of_sense' = model.of_sense
    /\ cons_senses' = model.cons_senses
    /\ variable_names' = model.variable_names
    /\ original_row_index' = [i \in 1..NumRows(model.A) |-> i - 1]
    /\ original_column_index' = [j \in 1..NumCols(model.A) |-> j - 1]
    /\ operation_table' =
           Append(operation_table,
               TableEntry("Initial", model.cons_senses, model.variable_names,
                          model.A))
    /\ pc' = Following(0)
    /\ UNCHANGED <<model, perform, k, change_dictionary, solution, warned>>

-----------------------------------------------------------------------------
(* Input LPs: what get_model_matrices(self.model) hands to the engine *)

Names == <<"x0", "x1", "x2">>

\* One row a1*x0 + a2*x1 + a3*x2 <= rhs.
Row(a1, a2, a3, rhs) == [row |-> <<a1, a2, a3>>, rhs |-> rhs]
le(a1, a2, a3, rhs) == <<Row(R(a1), R(a2), R(a3), R(rhs))>>
\* An equality, as a row and its negative counterpart.
eq(a1, a2, a3, rhs) == <<Row(R(a1), R(a2), R(a3), R(rhs)),
                         Row(R(-a1), R(-a2), R(-a3), R(-rhs))>>

Pool ==
    { eq(2, 0, 0, 6),  eq(2, 0, 0, -6), eq(1, 2, 0, 4),  eq(1, 1, 0, 0),
      le(0, 1, 1, 5),  le(3, 1, 0, 2),  le(0, 0, 0, 0),  le(0, 0, 0, 3),
      le(-1, 0, 0, 0), le(1, 0, 0, -1), le(1, 0, 0, 0),  le(-1, 0, 0, 1),
      <<Row(R(1), R(1), Zero, infinity)>> }

Costs == { <<R(1), R(1), R(1)>>, <<R(-1), Zero, R(1)>>, <<R(1), Zero, R(-1)>> }

RECURSIVE Flatten(_)
Flatten(blocks) ==
    IF blocks = <<>> THEN <<>> ELSE Head(blocks) \o Flatten(Tail(blocks))

\* The tuple get_model_matrices returns; lb and ub come as Python lists or
\* as numpy arrays.
MakeLP(rows, cost, lo, up, is_array) ==
    [A              |-> Mat([i \in DOMAIN rows |-> rows[i].row], Len(Names)),
     b              |-> [i \in DOMAIN rows |-> rows[i].rhs],
     c              |-> cost,
     co             |-> Zero,
     lb             |-> lo,
     ub             |-> up,
     lb_ndarray     |-> is_array,
     of_sense       |-> 1,
     cons_senses    |-> [i \in DOMAIN rows |-> "<"],
     variable_names |-> Names]

NoLowerBound == <<Zero, Zero, Zero>>
NoUpperBound == <<infinity, infinity, infinity>>

\* LPs of up to MaxBlocks blocks of the pool, with bounds 0 <= x <= infinity.
Family ==
    {MakeLP(Flatten(blocks), cost, NoLowerBound, NoUpperBound, FALSE) :
        blocks \in UNION {[1..m -> Pool] : m \in 1..MaxBlocks},
        cost \in Costs}

\* Larger LPs, on which the rules feed one another.
Scenarios ==
    { \* a singleton equality that exposes another, and a plain row
      MakeLP(eq(2, 0, 0, 6) \o eq(1, 1, 0, 5) \o le(0, 1, 1, 5),
             <<R(1), R(1), R(1)>>, NoLowerBound, NoUpperBound, FALSE),
      \* a 2-ton equality and a row that meets its pivot column
      MakeLP(eq(1, 2, 0, 4) \o le(0, 1, 1, 5) \o le(0, 0, 0, 3),
             <<R(1), R(1), R(1)>>, NoLowerBound, NoUpperBound, FALSE),
      \* two singleton inequalities on one column
      MakeLP(le(-1, 0, 0, 0) \o le(-2, 0, 0, 0) \o le(0, 1, 1, 5),
             <<R(1), Zero, Zero>>, NoLowerBound, NoUpperBound, FALSE),
      \* two singleton columns in one row, and a zero row
      MakeLP(le(1, 1, 0, 5) \o le(0, 0, 1, 0) \o le(0, 0, -1, 1) \o le(0, 0, 0, 3),
             <<Zero, Zero, R(1)>>, NoLowerBound, NoUpperBound, FALSE),
      \* a row with an infinite right-hand side under a larger lower bound
      MakeLP(<<Row(R(1), Zero, Zero, infinity)>> \o le(0, 1, 1, 5) \o le(0, 2, 2, 10),
             <<R(1), R(-1), Zero>>,
             <<RAdd(infinity, infinity), Zero, Zero>>, NoUpperBound, FALSE),
      \* an equality with a negative solution
      MakeLP(eq(2, 0, 0, -6) \o le(0, 1, 1, 5),
             <<R(1), R(1), R(1)>>, NoLowerBound, NoUpperBound, FALSE) }

\* A 3-ton equality whose pivot column meets five rows that are zero in the
\* other columns of the pivot row.
FillIn ==
    MakeLP(eq(1, 1, 1, 3) \o le(0, 0, 1, 1) \o le(0, 0, 1, 1) \o le(0, 0, 1, 1)
               \o le(0, 0, 1, 1) \o le(0, 0, 1, 1),
           <<R(1), R(1), R(1)>>, NoLowerBound, NoUpperBound, FALSE)

AsArrays(lp) == [lp EXCEPT !.lb_ndarray = TRUE]

-----------------------------------------------------------------------------
(* The engine *)

\* After __init__: the model and the flags are set, the fields are empty.
Constructed(lp, flags, kk) ==
    /\ model = lp
    /\ perform = flags
    /\ k = kk
    /\ A = Mat(<<>>, 0)
    /\ b = <<>>
    /\ c = <<>>
    /\ co = Zero
    /\ lb = <<>>
    /\ ub = <<>>
    /\ lb_ndarray = FALSE
    /\ of_sense = 0
    /\ cons_senses = <<>>
    /\ variable_names = <<>>
    /\ original_row_index = <<>>
    /\ original_column_index = <<>>
    /\ change_dictionary = <<>>
    /\ operation_table = <<>>
    /\ solution = <<>>
    /\ warned = NoWarnings
    /\ pc = "new"

\* Only eliminate_kton_equalities reads k, and only
\* eliminate_singleton_inequalities depends on the type of lb and ub.
KChoices(flags) ==
    IF "eliminate_kton_equalities" \in flags THEN {1, 2} ELSE {2}

TypeChoices(lp, flags) ==
    IF "eliminate_singleton_inequalities" \in flags THEN {lp, AsArrays(lp)}
    ELSE {lp}

Init ==
    \/ \E lp0 \in Scenarios, flags \in SUBSET Rules :
       \E lp \in TypeChoices(lp0, flags) : Constructed(lp, flags, 2)
    \/ \E flags \in SUBSET Rules :
       \E lp \in TypeChoices(FillIn, flags) : Constructed(lp, flags, 3)
    \/ \E lp0 \in Family, r \in Rules :
       \E lp \in TypeChoices(lp0, {r}), kk \in KChoices({r}) :
           Constructed(lp, {r}, kk)

Next ==
    \/ load_model_matrices
    \/ reduction_small_coefficients
    \/ eliminate_implied_bounds
    \/ eliminate_redundant_rows
    \/ kton_pass
    \/ kton_return
    \/ singleton_pass
    \/ singleton_infeasible
    \/ singleton_return
    \/ eliminate_singleton_inequalities
    \/ eliminate_dual_singleton_inequalities
    \/ eliminate_redundant_columns
    \/ eliminate_zero_rows
    \/ eliminate_zero_columns

Spec == Init /\ [][Next]_vars

-----------------------------------------------------------------------------
(* Properties *)

\* rows(A) = |b| = |cons_senses| = |original_row_index| and
\* cols(A) = |c| = |lb| = |ub| = |variable_names| = |original_column_index|
Consistent ==
    /\ NumRows(A) = Len(b)
    /\ NumRows(A) = Len(cons_senses)
    /\ NumRows(A) = Len(original_row_index)
    /\ NumCols(A) = Len(c)
    /\ NumCols(A) = Len(lb)
    /\ NumCols(A) = Len(ub)
    /\ NumCols(A) = Len(variable_names)
    /\ NumCols(A) = Len(original_column_index)

\* The positions 1..n that are not in S, in increasing order.
Surviving(n, S) == SetToSeq((1..n) \ S)

\* The labels of the operation table, in order.
Labels(table) == [i \in DOMAIN table |-> table[i][1]]

\* "Initial" and the labels of the enabled rules at the positions below p.
RECURSIVE LabelsBelow(_, _)
LabelsBelow(flags, p) ==
    IF p <= 1 THEN <<"Initial">>
    ELSE LabelsBelow(flags, p - 1)
         \o (IF Order[p - 1] \in flags THEN <<Label[Order[p - 1]]>> ELSE <<>>)

IsPrefix(s, t) == Len(s) <= Len(t) /\ s = SubSeq(t, 1, Len(s))

\* C1: after every reduction rule returns, in any orchestrator run, all the
\* parallel vectors match the row and column counts of A.
C1_DimensionalConsistency ==
    pc \in Rules \cup {"done"} => Consistent

\* C2: when the first singleton equality row gives x_k < 0, the rule warns
\* once, stops iterating without changing the LP state, and the
\* orchestrator goes on to the next enabled rule.
C2_InfeasibleSingletonStops ==
    [][ ( /\ pc = "eliminate_singleton_equalities"
          /\ ~DetectorRaises(A, b)
          /\ singleton_valid_rows(A, b) # {}
          /\ IsNeg(singleton_x_k(A, b, Min(singleton_valid_rows(A, b)))) )
        => /\ pc' = After("eliminate_singleton_equalities")
           /\ warned'.Infeasibility = warned.Infeasibility + 1
           /\ UNCHANGED lp_vars ]_vars

\* C3: the operation table is "Initial" followed by one entry per enabled
\* rule that has returned, in the fixed order; the orchestrator is only ever
\* inside an enabled rule, and inside it only when every enabled rule before
\* it has made its entry; at the return every enabled rule has one entry.
C3_OperationTableOrder ==
    /\ pc \in Rules =>
           /\ pc \in perform
           /\ Labels(operation_table) = LabelsBelow(perform, Position(pc))
    /\ pc = "done" =>
           Labels(operation_table) = LabelsBelow(perform, Len(Order) + 1)
    /\ pc = "raised" =>
           IsPrefix(Labels(operation_table), LabelsBelow(perform, Len(Order) + 1))
    /\ pc = "new" => operation_table = <<>>

\* A run has returned with some rules enabled and some disabled.
C3_Witness ==
    /\ pc = "done"
    /\ Cardinality(perform) >= 3
    /\ "eliminate_kton_equalities" \notin perform
    /\ "eliminate_zero_rows" \in perform
    /\ Len(operation_table) = Cardinality(perform) + 1

-----------------------------------------------------------------------------
(* One turn of eliminate_singleton_equalities that fixes a variable *)

SingletonStep ==
    /\ pc = "eliminate_singleton_equalities"
    /\ pc' = pc
    /\ A' # A

\* The row, the column and the value of the turn.
StepRow == Min(singleton_valid_rows(A, b))
StepColumn == CHOOSE j \in 1..NumCols(A) : ~IsZero(A.A[StepRow][j])
StepValue == RDiv(b[StepRow], A.A[StepRow][StepColumn])

\* s' holds the entries of s at the positions `keep`, in that order.
Restricted(new, old, keep) ==
    /\ Len(new) = Len(keep)
    /\ \A p \in DOMAIN keep : new[p] = old[keep[p]]

\* C4: one pass of singleton-equality elimination on the first singleton row
\* i with a negative counterpart, column k, x_k = b[i]/A[i,k] >= 0: records
\* solution[name(k)] = x_k, replaces b by b - A[:,k]*x_k, decreases co by
\* c[k]*x_k, removes rows i and mate(i) and column k from A, from every
\* parallel vector and from the index maps, and changes no other entry.
C4_SingletonEqualityPass ==
    [][ SingletonStep =>
        /\ RLe(Zero, StepValue)
        /\ variable_names[StepColumn] \in DOMAIN solution'
        /\ solution'[variable_names[StepColumn]] = StepValue
        /\ co' = RSub(co, RMul(c[StepColumn], StepValue))
        /\ \E mate \in Mates(A, b, StepRow) :
           LET rows == Surviving(NumRows(A), {StepRow, mate})
               cols == Surviving(NumCols(A), {StepColumn})
           IN  /\ A'.shape = <<Len(rows), Len(cols)>>
               /\ \A p \in DOMAIN rows : \A q \in DOMAIN cols :
                      A'.A[p][q] = A.A[rows[p]][cols[q]]
               /\ Len(b') = Len(rows)
               /\ \A p \in DOMAIN rows :
                      b'[p] = RSub(b[rows[p]],
                                   RMul(A.A[rows[p]][StepColumn], StepValue))
               /\ Restricted(cons_senses', cons_senses, rows)
               /\ Restricted(original_row_index', original_row_index, rows)
               /\ Restricted(c', c, cols)
               /\ Restricted(lb', lb, cols)
               /\ Restricted(ub', ub, cols)
               /\ Restricted(variable_names', variable_names, cols)
               /\ Restricted(original_column_index', original_column_index, cols)
      ]_vars

\* x0 = 3 was fixed and the row x0 + x1 = 5 now reads x1 = 2.
C4_Witness ==
    /\ pc = "eliminate_singleton_equalities"
    /\ DOMAIN solution = {"x0"}
    /\ solution["x0"] = R(3)
    /\ Len(b) = 3
    /\ b[1] = R(2)
    /\ co = R(-3)

\* c . x for a cost vector and an assignment of the same length
RECURSIVE Dot(_, _)
Dot(u, v) ==
    IF u = <<>> THEN Zero
    ELSE RAdd(RMul(Head(u), Head(v)), Dot(Tail(u), Tail(v)))

\* Assignments of the values 0 and 1 to n variables.
Assignments(n) == [1..n -> {Zero, R(1)}]

\* C5: singleton-equality elimination preserves the objective value: for
\* every assignment x' of the surviving variables, co' + c'.x' after the pass
\* equals co + c.x before it, x being x' with the eliminated variable at its
\* journaled value.
C5_ObjectivePreserved ==
    [][ SingletonStep =>
        \A x1 \in Assignments(Len(c')) :
            LET cols == Surviving(NumCols(A), {StepColumn})
                x == [j \in 1..NumCols(A) |->
                         IF j = StepColumn
                         THEN solution'[variable_names[StepColumn]]
                         ELSE x1[CHOOSE q \in DOMAIN cols : cols[q] = j]]
            IN  RAdd(co', Dot(c', x1)) = RAdd(co, Dot(c, x))
      ]_vars

-----------------------------------------------------------------------------
(* One turn of eliminate_kton_equalities *)

KtonStep ==
    /\ pc = "eliminate_kton_equalities"
    /\ pc' = pc
    /\ A' # A

KtonRow == Min(kton_valid_rows(A, b, k))
\* the last nonzero column of that row
KtonColumn ==
    CHOOSE j \in 1..NumCols(A) :
        /\ ~IsZero(A.A[KtonRow][j])
        /\ \A h \in (j + 1)..NumCols(A) : IsZero(A.A[KtonRow][h])
\* s = 1 / A[i, k*]
KtonScale == RDiv(R(1), A.A[KtonRow][KtonColumn])

\* C6: one pass of k-ton elimination on the first row i with k nonzeros and
\* a negative counterpart, pivot k* its last nonzero column, s = 1/A[i,k*]:
\* every other surviving row r ends as A[r,:] - A[r,k*]*s*A[i,:] with
\* right-hand side b[r] - A[r,k*]*s*b[i]; co grows by c[k*]*s*b[i]; c becomes
\* c - c[k*]*s*A[i,:]; column k* leaves A, c, lb, ub, variable_names and
\* original_column_index; row i stays as the negation of its scaled
\* coefficients and right-hand side; the mate is the only row removed.
C6_KtonPass ==
    [][ KtonStep =>
        \E mate \in Mates(A, b, KtonRow) :
        LET rows == Surviving(NumRows(A), {mate})
            cols == Surviving(NumCols(A), {KtonColumn})
            i == KtonRow
            s == KtonScale
        IN  /\ mate # i
            /\ A'.shape = <<NumRows(A) - 1, NumCols(A) - 1>>
            /\ Len(rows) = NumRows(A) - 1
            /\ \A p \in DOMAIN rows : \A q \in DOMAIN cols :
                   A'.A[p][q] =
                       IF rows[p] = i
                       THEN RNeg(RMul(s, A.A[i][cols[q]]))
                       ELSE RSub(A.A[rows[p]][cols[q]],
                                 RMul(RMul(A.A[rows[p]][KtonColumn], s),
                                      A.A[i][cols[q]]))
            /\ Len(b') = Len(rows)
            /\ \A p \in DOMAIN rows :
                   b'[p] =
                       IF rows[p] = i
                       THEN RNeg(RMul(s, b[i]))
                       ELSE RSub(b[rows[p]],
                                 RMul(RMul(A.A[rows[p]][KtonColumn], s), b[i]))
            /\ co' = RAdd(co, RMul(RMul(c[KtonColumn], s), b[i]))
            /\ Len(c') = Len(cols)
            /\ \A q \in DOMAIN cols :
                   c'[q] = RSub(c[cols[q]],
                                RMul(RMul(c[KtonColumn], s), A.A[i][cols[q]]))
            /\ Restricted(lb', lb, cols)
            /\ Restricted(ub', ub, cols)
            /\ Restricted(variable_names', variable_names, cols)
            /\ Restricted(original_column_index', original_column_index, cols)
            /\ Restricted(cons_senses', cons_senses, rows)
            /\ Restricted(original_row_index', original_row_index, rows)
      ]_vars

\* x0 + 2 x1 = 4 was eliminated with pivot x1: the row x1 + x2 <= 5 reads
\* -x0/2 + x2 <= 3 and the pivot row stays as -x0/2 <= -2.
C6_Witness ==
    /\ pc = "eliminate_kton_equalities"
    /\ k = 2
    /\ DOMAIN solution = {"x1"}
    /\ variable_names = <<"x0", "x2">>
    /\ NumRows(A) >= 2
    /\ A.A[1] = <<<<-1, 2>>, Zero>>
    /\ b[1] = R(-2)
    /\ A.A[2] = <<<<-1, 2>>, R(1)>>
    /\ b[2] = R(3)
    /\ co = R(2)

-----------------------------------------------------------------------------
(* eliminate_zero_rows applied to a dimensionally consistent LP state *)

ZeroRowsStep == pc = "eliminate_zero_rows" /\ Consistent

ZeroRows == {i \in 1..NumRows(A) : \A j \in 1..NumCols(A) : IsZero(A.A[i][j])}
PositiveZeroRows == {i \in ZeroRows : IsPos(b[i])}
RedundantZeroRows == {i \in ZeroRows : ~IsPos(b[i])}

\* C7, as claimed: an all-zero row with b[i] > 0 gives one infeasibility
\* warning, no exception, and the row is still deleted from A, b,
\* cons_senses and original_row_index.
C7_InfeasibleZeroRowDeleted ==
    [][ ZeroRowsStep =>
        /\ pc' # "raised"
        /\ warned'.Infeasibility =
               warned.Infeasibility + Cardinality(PositiveZeroRows)
        /\ \A i \in PositiveZeroRows :
               original_row_index[i] \notin Range(original_row_index')
        /\ NumRows(A') = NumRows(A) - Cardinality(ZeroRows)
        /\ Len(b') = NumRows(A')
        /\ Len(cons_senses') = NumRows(A')
      ]_vars

\* C7, amended: an all-zero row with b[i] > 0 gives one infeasibility
\* warning, no exception, and the row is kept: it stays in A, b, cons_senses
\* and original_row_index and is not journaled as deleted.
C7_InfeasibleZeroRowKept ==
    [][ ZeroRowsStep =>
        /\ pc' # "raised"
        /\ warned'.Infeasibility =
               warned.Infeasibility + Cardinality(PositiveZeroRows)
        /\ \A i \in PositiveZeroRows :
               /\ \E p \in 1..NumRows(A') :
                      /\ original_row_index'[p] = original_row_index[i]
                      /\ A'.A[p] = A.A[i]
                      /\ b'[p] = b[i]
                      /\ cons_senses'[p] = cons_senses[i]
               /\ original_row_index[i] \notin
                      Range(change_dictionary'["eliminate_zero_rows"].deleted_rows_indices)
      ]_vars

\* The rule has returned, it warned, and a zero row with a positive
\* right-hand side is in the LP beside a row that is not zero.
C7_Witness ==
    /\ "eliminate_zero_rows" \in DOMAIN change_dictionary
    /\ pc = "done"
    /\ warned.Infeasibility = 1
    /\ Consistent
    /\ \E i \in 1..NumRows(A) : i \in ZeroRows /\ b[i] = R(3)
    /\ \E i \in 1..NumRows(A) : i \notin ZeroRows

\* C8: zero-row elimination deletes every all-zero row with b[i] <= 0,
\* journals their original indices in deleted_rows_indices, keeps the other
\* rows in order with b, cons_senses and original_row_index aligned, and
\* leaves c, co, lb, ub, of_sense, variable_names, original_column_index and
\* every column of A as they were; without an all-zero row the whole LP
\* state is unchanged.
C8_ZeroRowsFrame ==
    [][ ZeroRowsStep =>
        LET deleted == SetToSeq(RedundantZeroRows)
            rows == Surviving(NumRows(A), RedundantZeroRows)
        IN  /\ pc' = After("eliminate_zero_rows")
            /\ A'.shape = <<Len(rows), NumCols(A)>>
            /\ Restricted(A'.A, A.A, rows)
            /\ Restricted(b', b, rows)
            /\ Restricted(cons_senses', cons_senses, rows)
            /\ Restricted(original_row_index', original_row_index, rows)
            /\ Restricted(change_dictionary'["eliminate_zero_rows"].deleted_rows_indices,
                          original_row_index, deleted)
            /\ UNCHANGED <<c, co, lb, ub, lb_ndarray, of_sense, variable_names,
                           original_column_index>>
            /\ ZeroRows = {} => UNCHANGED lp_vars
      ]_vars

\* The rule deleted a zero row and left another row in place.
C8_Witness ==
    /\ "eliminate_zero_rows" \in DOMAIN change_dictionary
    /\ Len(change_dictionary["eliminate_zero_rows"].deleted_rows_indices) >= 1
    /\ NumRows(A) >= 1
    /\ Consistent
    /\ perform = {"eliminate_zero_rows"}
    /\ pc = "done"

-----------------------------------------------------------------------------
(* eliminate_zero_columns applied to a dimensionally consistent LP state *)

ZeroColumnsStep == pc = "eliminate_zero_columns" /\ Consistent

ZeroColumns == {j \in 1..NumCols(A) : \A i \in 1..NumRows(A) : IsZero(A.A[i][j])}
FixedZeroColumns == {j \in ZeroColumns : ~IsNeg(c[j])}
UnboundedZeroColumns == {j \in ZeroColumns : IsNeg(c[j])}

\* C9: every all-zero column j with c[j] >= 0 is deleted from A, c, lb, ub,
\* variable_names and original_column_index and journaled with
\* solution[name(j)] = 0 and its original index in deleted_columns; every
\* all-zero column with c[j] < 0 gives an unboundedness warning and stays;
\* no column with a nonzero entry and no row is changed; co is unchanged.
C9_ZeroColumns ==
    [][ ZeroColumnsStep =>
        LET deleted == SetToSeq(FixedZeroColumns)
            cols == Surviving(NumCols(A), FixedZeroColumns)
            entry == change_dictionary'["eliminate_zero_columns"]
        IN  /\ pc' = After("eliminate_zero_columns")
            /\ A'.shape = <<NumRows(A), Len(cols)>>
            /\ \A i \in 1..NumRows(A) : Restricted(A'.A[i], A.A[i], cols)
            /\ Restricted(c', c, cols)
            /\ Restricted(lb', lb, cols)
            /\ Restricted(ub', ub, cols)
            /\ Restricted(variable_names', variable_names, cols)
            /\ Restricted(original_column_index', original_column_index, cols)
            /\ Restricted(entry.deleted_columns, original_column_index, deleted)
            /\ DOMAIN entry.solution = {variable_names[j] : j \in FixedZeroColumns}
            /\ \A n \in DOMAIN entry.solution : entry.solution[n] = Zero
            /\ warned'.Unboundedness =
                   warned.Unboundedness + Cardinality(UnboundedZeroColumns)
            /\ warned'.Infeasibility = warned.Infeasibility
            /\ UNCHANGED <<b, co, cons_senses, original_row_index, of_sense>>
      ]_vars

\* The rule fixed one zero column at 0, warned about another with a
\* negative cost and kept that one.
C9_Witness ==
    /\ pc = "done"
    /\ perform = {"eliminate_zero_columns"}
    /\ "eliminate_zero_columns" \in DOMAIN change_dictionary
    /\ change_dictionary["eliminate_zero_columns"].deleted_columns = <<1>>
    /\ warned.Unboundedness = 1
    /\ variable_names = <<"x0", "x2">>
    /\ ZeroColumns = {2}

-----------------------------------------------------------------------------
(* The rows the journal reports *)

SimpleKeys == {"eliminate_zero_rows", "eliminate_singleton_inequalities",
               "eliminate_dual_singleton_inequalities",
               "eliminate_redundant_columns", "eliminate_implied_bounds",
               "eliminate_redundant_rows"}

PerVariableKeys == {"eliminate_singleton_equalities", "eliminate_kton_equalities"}

\* Every original row index under a deleted_rows_indices of the journal.
JournaledRows ==
    UNION {Range(change_dictionary[key].deleted_rows_indices) :
              key \in SimpleKeys \cap DOMAIN change_dictionary}
    \cup
    UNION {UNION {Range(change_dictionary[key][var].deleted_rows_indices) :
                     var \in DOMAIN change_dictionary[key] \ {"solutions"}} :
              key \in PerVariableKeys \cap DOMAIN change_dictionary}

\* C10: after an orchestrator run, every original row index of the initial
\* LP that is no longer in original_row_index is in the deleted_rows_indices
\* journaled by some rule.
C10_RemovedRowsJournaled ==
    pc = "done" =>
        \A r \in 0..(NumRows(model.A) - 1) :
            r \notin Range(original_row_index) => r \in JournaledRows


-----------------------------------------------------------------------------
(* C11 *)

\* The original row indices one rule has journaled as deleted.
RowsJournaledBy(key) ==
    IF key \in SimpleKeys
    THEN Range(change_dictionary[key].deleted_rows_indices)
    ELSE UNION {Range(change_dictionary[key][var].deleted_rows_indices) :
                   var \in DOMAIN change_dictionary[key] \ {"solutions"}}

\* The rules that have journaled and returned.
ReturnedKeys ==
    IF pc = "raised" THEN {}
    ELSE {key \in (SimpleKeys \cup PerVariableKeys) \cap DOMAIN change_dictionary :
             key # pc}

\* C11: once a rule has returned, no original row index it journaled under
\* deleted_rows_indices is still in original_row_index.
C11_JournaledRowsAreGone ==
    \A key \in ReturnedKeys :
        RowsJournaledBy(key) \cap Range(original_row_index) = {}


-----------------------------------------------------------------------------
(* C12 *)

\* What the "variables" field of a k-ton solution reads as: the dictionary
\* holds the list object self.variable_names itself, so it shows every later
\* in-place deletion from that list.
journal_variables(rec) ==
    IF rec.variables = "self.variable_names" THEN variable_names
    ELSE rec.variables

KtonSolutions ==
    IF /\ "eliminate_kton_equalities" \in DOMAIN change_dictionary
       /\ "solutions" \in DOMAIN change_dictionary["eliminate_kton_equalities"]
    THEN change_dictionary["eliminate_kton_equalities"].solutions
    ELSE <<>>

\* C12: the variables of every k-ton solution entry has one name per
\* coefficient of its lhs and contains the eliminated variable's name, from
\* the pass that wrote it onwards.
C12_KtonVariablesSnapshot ==
    \A var \in DOMAIN KtonSolutions :
        /\ Len(journal_variables(KtonSolutions[var])) = Len(KtonSolutions[var].lhs)
        /\ var \in Range(journal_variables(KtonSolutions[var]))


-----------------------------------------------------------------------------
(* C13 *)


\* One entry of the operation table: (label, rows, cols, nnz).
NonIncreasing(prev, entry) ==
    /\ entry[2] <= prev[2]
    /\ entry[3] <= prev[3]

\* C13 as stated: rows and cols never increase across successive entries,
\* and nnz never increases at the entry of any rule other than
\* sparsification.
C13_TableMonotone ==
    \A i \in 1..(Len(operation_table) - 1) :
        /\ NonIncreasing(operation_table[i], operation_table[i + 1])
        /\ operation_table[i + 1][1] # "reduction Small Coefficients"
               => operation_table[i + 1][4] <= operation_table[i][4]

\* C13: rows and cols never increase across successive entries, and nnz
\* never increases at the entry of any rule other than sparsification and
\* k-ton elimination, whose substitution can fill in zero entries.
C13_TableMonotoneButKton ==
    \A i \in 1..(Len(operation_table) - 1) :
        /\ NonIncreasing(operation_table[i], operation_table[i + 1])
        /\ operation_table[i + 1][1] \notin
               {"reduction Small Coefficients",
                "Eliminate Kton Equalities"}
               => operation_table[i + 1][4] <= operation_table[i][4]

\* A finished run whose k-ton entry shows more nonzeros than the entry
\* before it, followed by the entry of a later rule.
C13_Witness ==
    /\ pc = "done"
    /\ \E i \in 1..(Len(operation_table) - 2) :
        /\ operation_table[i + 1][1] = "Eliminate Kton Equalities"
        /\ operation_table[i + 1][4] > operation_table[i][4]
        /\ operation_table[i + 2][1] = "Eliminate Zero Rows"
        /\ operation_table[i + 2][4] <= operation_table[i + 1][4]


-----------------------------------------------------------------------------
(* A second engine on the LP a finished run returned *)

\* The LP of the tuple orchestrator_presolve_operations returns, as the
\* model of another engine; the field "returned" marks where it came from.
ReturnedLP ==
    [A              |-> A,
     b              |-> b,
     c              |-> c,
     co             |-> co,
     lb             |-> lb,
     ub             |-> ub,
     lb_ndarray     |-> lb_ndarray,
     of_sense       |-> of_sense,
     cons_senses    |-> cons_senses,
     variable_names |-> variable_names,
     returned       |-> TRUE]

\* PresolveComillas(model, ...) with the same flags and k, where model holds
\* the returned LP.  Only a well-formed LP makes a model.
PresolveComillas_on_returned ==
    /\ pc = "done"
    /\ Consistent
    /\ "returned" \notin DOMAIN model
    /\ model' = ReturnedLP
    /\ A' = Mat(<<>>, 0)
    /\ b' = <<>>
    /\ c' = <<>>
    /\ co' = Zero
    /\ lb' = <<>>
    /\ ub' = <<>>
    /\ lb_ndarray' = FALSE
    /\ of_sense' = 0
    /\ cons_senses' = <<>>
    /\ variable_names' = <<>>
    /\ original_row_index' = <<>>
    /\ original_column_index' = <<>>
    /\ change_dictionary' = <<>>
    /\ operation_table' = <<>>
    /\ solution' = <<>>
    /\ warned' = NoWarnings
    /\ pc' = "new"
    /\ UNCHANGED <<perform, k>>

NextOnReturned == Next \/ PresolveComillas_on_returned

SpecOnReturned == Init /\ [][NextOnReturned]_vars

\* No rule has journaled a deleted row, a deleted column or a fixed variable.
JournalIsEmpty ==
    \A key \in DOMAIN change_dictionary :
        IF key \in PerVariableKeys
        THEN /\ DOMAIN change_dictionary[key] \subseteq {"solutions"}
             /\ "solutions" \in DOMAIN change_dictionary[key]
                    => DOMAIN change_dictionary[key].solutions = {}
        ELSE \A field \in DOMAIN change_dictionary[key] :
                 DOMAIN change_dictionary[key][field] = {}

\* C14: a run on the LP a previous run with the same flags returned deletes
\* no row and no column, journals nothing, and keeps the dimensions of A.
C14_FixedPoint ==
    ("returned" \in DOMAIN model /\ pc \in Rules \cup {"done"}) =>
        /\ A.shape = model.A.shape
        /\ Len(b) = Len(model.b)
        /\ Len(c) = Len(model.c)
        /\ JournalIsEmpty


-----------------------------------------------------------------------------
(* A rule called a second time, directly after it returned *)

\* The rule whose entry is the last one of the operation table.
LastApplied ==
    {r \in Rules :
        /\ Len(operation_table) >= 2
        /\ operation_table[Len(operation_table)][1] = Label[r]}

\* engine.<rule>() called once more on the state the rule has just left,
\* when that state is dimensionally consistent; one such call per run.
apply_again ==
    /\ pc \in Rules \cup {"done"}
    /\ Consistent
    /\ \A i, j \in DOMAIN operation_table :
           operation_table[i][1] = operation_table[j][1] => i = j
    /\ \E r \in LastApplied : pc' = r
    /\ UNCHANGED <<model, perform, k, lp_vars, change_dictionary,
                   operation_table, solution, warned>>

NextTwice == Next \/ apply_again

SpecTwice == Init /\ [][NextTwice]_vars

\* C15: a rule applied to the state its own previous application left, that
\* state being dimensionally consistent, changes none of A, b, c, co, lb, ub,
\* cons_senses, variable_names and the two original-index maps.
C15_RuleIdempotent ==
    [][ (pc \in LastApplied /\ Consistent)
        => UNCHANGED <<A, b, c, co, lb, ub, cons_senses, variable_names,
                       original_row_index, original_column_index>> ]_vars


-----------------------------------------------------------------------------
(* C16 *)

\* Successive substitution on equations eqs[i].row . x = eqs[i].rhs: the first
\* equation in one unknown fixes that unknown, which is substituted into
\* every equation; values maps the names of the unknowns fixed so far.
RECURSIVE GaussianSubstitution(_, _)
GaussianSubstitution(eqs, values) ==
    LET single == {i \in DOMAIN eqs : count_nonzero(eqs[i].row) = 1}
    IN  IF single = {} THEN values
        ELSE LET i  == Min(single)
                 kc == Min(NonZero(eqs[i].row))
                 x  == RDiv(eqs[i].rhs, eqs[i].row[kc])
             IN  GaussianSubstitution(
                     [r \in DOMAIN eqs |->
                         [row |-> [eqs[r].row EXCEPT ![kc] = Zero],
                          rhs |-> RSub(eqs[r].rhs, RMul(eqs[r].row[kc], x))]],
                     (Names[kc] :> x) @@ values)

\* The equations of the input LP and what substitution assigns on them.
ModelEquations ==
    [i \in 1..NumRows(model.A) |-> [row |-> model.A.A[i], rhs |-> model.b[i]]]

Substituted == GaussianSubstitution(ModelEquations, <<>>)

\* Every row of the input LP is half of a negative-counterpart pair, every
\* substituted value is nonnegative, and no enabled rule runs before
\* singleton-equality elimination, so the rule starts on the input LP.
EqualitySystem ==
    /\ NumRows(model.A) > 0
    /\ \A i \in 1..NumRows(model.A) :
           has_negative_counterpart(model.A, model.b, i)
    /\ \A var \in DOMAIN Substituted : RLe(Zero, Substituted[var])
    /\ \A r \in perform :
           Position(r) >= Position("eliminate_singleton_equalities")

SingletonReturned ==
    /\ "eliminate_singleton_equalities" \in DOMAIN change_dictionary
    /\ "solutions" \in DOMAIN change_dictionary["eliminate_singleton_equalities"]

\* C16: on an LP of equality pairs with nonnegative substituted values,
\* singleton-equality elimination run to completion journals under solutions
\* exactly the values of successive substitution, and when it returns no row
\* with one nonzero and a negative counterpart is left.
C16_GaussianSubstitution ==
    (EqualitySystem /\ SingletonReturned) =>
        /\ change_dictionary["eliminate_singleton_equalities"].solutions
               = Substituted
        /\ operation_table[Len(operation_table)][1]
               = "Eliminate Singleton Equalities"
               => singleton_valid_rows(A, b) = {}

\* Two unknowns fixed in succession, the second from a row that had two
\* nonzeros on entry.
C16_Witness ==
    /\ EqualitySystem
    /\ SingletonReturned
    /\ pc = "done"
    /\ change_dictionary["eliminate_singleton_equalities"].solutions
           = ("x0" :> R(3)) @@ ("x1" :> <<1, 2>>)


-----------------------------------------------------------------------------
(* C17 *)

SingletonInequalitiesStep ==
    pc = "eliminate_singleton_inequalities" /\ Consistent

\* Rows with exactly one nonzero and no negative counterpart, their column
\* and their coefficient.
InequalityRows ==
    {i \in 1..NumRows(A) :
        Cardinality({j \in 1..NumCols(A) : ~IsZero(A.A[i][j])}) = 1
        /\ ~has_negative_counterpart(A, b, i)}

InequalityColumn(i) == CHOOSE j \in 1..NumCols(A) : ~IsZero(A.A[i][j])

InequalityCoefficient(i) == A.A[i][InequalityColumn(i)]

InequalityDroppedRows ==
    {i \in InequalityRows :
        \/ IsPos(InequalityCoefficient(i)) /\ IsNeg(b[i])
        \/ IsPos(InequalityCoefficient(i)) /\ IsZero(b[i])
        \/ IsNeg(InequalityCoefficient(i)) /\ IsZero(b[i])}

InequalityDroppedColumns ==
    {InequalityColumn(i) :
        i \in {r \in InequalityRows :
                  IsNeg(InequalityCoefficient(r)) /\ IsZero(b[r])}}

InequalityInfeasibleRows ==
    {i \in InequalityRows : IsNeg(InequalityCoefficient(i)) /\ IsPos(b[i])}

\* C17: singleton-inequality elimination, on a dimensionally consistent
\* state, drops exactly the singleton rows without negative counterpart in
\* the cases (A>0, b<0), (A>0, b=0), (A<0, b=0), drops exactly the columns of
\* the rows in the case (A<0, b=0), warns once per row in the case
\* (A<0, b>0) and keeps it, and keeps b, c, co and every parallel vector on
\* the surviving rows and columns.
C17_SingletonInequalities ==
    [][ SingletonInequalitiesStep =>
        LET rows == Surviving(NumRows(A), InequalityDroppedRows)
            cols == Surviving(NumCols(A), InequalityDroppedColumns)
        IN  /\ pc' = After("eliminate_singleton_inequalities")
            /\ A'.shape = <<Len(rows), Len(cols)>>
            /\ \A p \in DOMAIN rows :
                   Restricted(A'.A[p], A.A[rows[p]], cols)
            /\ Restricted(b', b, rows)
            /\ Restricted(cons_senses', cons_senses, rows)
            /\ Restricted(original_row_index', original_row_index, rows)
            /\ Restricted(c', c, cols)
            /\ Restricted(lb', lb, cols)
            /\ Restricted(ub', ub, cols)
            /\ Restricted(variable_names', variable_names, cols)
            /\ Restricted(original_column_index', original_column_index, cols)
            /\ co' = co
            /\ warned'.Infeasibility =
                   warned.Infeasibility + Cardinality(InequalityInfeasibleRows)
      ]_vars


-----------------------------------------------------------------------------
(* C18 *)

DualSingletonStep ==
    pc = "eliminate_dual_singleton_inequalities" /\ Consistent

\* Columns with exactly one nonzero, its row and its value.
DualColumns ==
    {j \in 1..NumCols(A) :
        Cardinality({i \in 1..NumRows(A) : ~IsZero(A.A[i][j])}) = 1}

DualRow(j) == CHOOSE i \in 1..NumRows(A) : ~IsZero(A.A[i][j])

DualCoefficient(j) == A.A[DualRow(j)][j]

DualDroppedColumns ==
    {j \in DualColumns :
        \/ IsNeg(DualCoefficient(j)) /\ IsPos(c[j])
        \/ IsPos(DualCoefficient(j)) /\ IsZero(c[j])
        \/ IsNeg(DualCoefficient(j)) /\ IsZero(c[j])}

DualDroppedRows ==
    {DualRow(j) :
        j \in {h \in DualColumns : IsPos(DualCoefficient(h)) /\ IsZero(c[h])}}

DualInfeasibleColumns ==
    {j \in DualColumns : IsPos(DualCoefficient(j)) /\ IsNeg(c[j])}

\* s lists exactly the members of S, each once.
ListsOnce(s, S) == Range(s) = S /\ Len(s) = Cardinality(S)

\* C18: dual-singleton-inequality elimination, on a dimensionally consistent
\* state, drops exactly the singleton columns in the cases (A<0, c>0),
\* (A>0, c=0), (A<0, c=0) and the rows of the columns in the case
\* (A>0, c=0), each once, journals the original index of each once, warns
\* once per column in the case (A>0, c<0) and keeps it, and keeps b, c, lb,
\* ub on the surviving rows and columns.
C18_DualSingletonInequalities ==
    [][ DualSingletonStep =>
        LET rows == Surviving(NumRows(A), DualDroppedRows)
            cols == Surviving(NumCols(A), DualDroppedColumns)
            entry == change_dictionary'["eliminate_dual_singleton_inequalities"]
        IN  /\ pc' = After("eliminate_dual_singleton_inequalities")
            /\ A'.shape = <<Len(rows), Len(cols)>>
            /\ \A p \in DOMAIN rows :
                   Restricted(A'.A[p], A.A[rows[p]], cols)
            /\ Restricted(b', b, rows)
            /\ Restricted(cons_senses', cons_senses, rows)
            /\ Restricted(original_row_index', original_row_index, rows)
            /\ Restricted(c', c, cols)
            /\ Restricted(lb', lb, cols)
            /\ Restricted(ub', ub, cols)
            /\ Restricted(variable_names', variable_names, cols)
            /\ Restricted(original_column_index', original_column_index, cols)
            /\ ListsOnce(entry.deleted_rows_indices,
                         {original_row_index[i] : i \in DualDroppedRows})
            /\ ListsOnce(entry.deleted_variables_indices,
                         {original_column_index[j] : j \in DualDroppedColumns})
            /\ warned'.Infeasibility =
                   warned.Infeasibility + Cardinality(DualInfeasibleColumns)
      ]_vars


-----------------------------------------------------------------------------
(* C19 *)

ImpliedBoundsStep == pc = "eliminate_implied_bounds" /\ Consistent

\* b[i] >= infinity, or INF[i] > b[i] + tolerance
ImpliedDroppedRows ==
    {i \in 1..NumRows(A) :
        \/ RLe(infinity, b[i])
        \/ RLt(RAdd(b[i], feasibility_tolerance), min_activity(A, lb, ub, i))}

\* SUP[i] < b[i] + tolerance
ImpliedInfeasibleRows ==
    {i \in 1..NumRows(A) :
        RLt(max_activity(A, lb, ub, i), RAdd(b[i], feasibility_tolerance))}

\* C19: implied-bound elimination, on a dimensionally consistent state,
\* deletes exactly the rows with b[i] >= infinity or INF[i] > b[i] + tolerance,
\* journals the original index of each exactly once, warns once per row with
\* SUP[i] < b[i] + tolerance, and leaves every other row, all columns, c, co,
\* lb and ub unchanged.
C19_ImpliedBounds ==
    [][ ImpliedBoundsStep =>
        LET rows == Surviving(NumRows(A), ImpliedDroppedRows)
            entry == change_dictionary'["eliminate_implied_bounds"]
        IN  /\ pc' = After("eliminate_implied_bounds")
            /\ A'.shape = <<Len(rows), NumCols(A)>>
            /\ \A p \in DOMAIN rows : A'.A[p] = A.A[rows[p]]
            /\ Restricted(b', b, rows)
            /\ Restricted(cons_senses', cons_senses, rows)
            /\ Restricted(original_row_index', original_row_index, rows)
            /\ ListsOnce(entry.deleted_rows_indices,
                         {original_row_index[i] : i \in ImpliedDroppedRows})
            /\ warned'.Infeasibility =
                   warned.Infeasibility + Cardinality(ImpliedInfeasibleRows)
            /\ UNCHANGED <<c, co, lb, ub, variable_names, original_column_index>>
      ]_vars


-----------------------------------------------------------------------------
(* orchestrator_presolve_operations called again on the same engine *)

\* One "Initial" entry is appended per call of load_model_matrices.
Invocations ==
    Cardinality({i \in DOMAIN operation_table : operation_table[i][1] = "Initial"})

\* load_model_matrices binds self.variable_names to a new list; the list the
\* k-ton solutions hold is the old one, as it is now.
journal_after_rebinding(dict) ==
    IF /\ "eliminate_kton_equalities" \in DOMAIN dict
       /\ "solutions" \in DOMAIN dict["eliminate_kton_equalities"]
    THEN LET sols == dict["eliminate_kton_equalities"].solutions
         IN  [dict EXCEPT !["eliminate_kton_equalities"].solutions =
                 [var \in DOMAIN sols |->
                     [sols[var] EXCEPT
                         !.variables = journal_variables(sols[var])]]]
    ELSE dict

\* The call starts with self.load_model_matrices(): the LP is read from
\* self.model again; the journal and the operation table are kept.
orchestrator_presolve_operations_again ==
    /\ pc = "done"
    /\ Invocations < MaxInvocations
    /\ A' = model.A
    /\ b' = model.b
    /\ c' = model.c
    /\ co' = model.co
    /\ lb' = model.lb
    /\ ub' = model.ub
    /\ lb_ndarray' = model.lb_ndarray
    /\ of_sense' = model.of_sense
    /\ cons_senses' = model.cons_senses
    /\ variable_names' = model.variable_names
    /\ original_row_index' = [i \in 1..NumRows(model.A) |-> i - 1]
    /\ original_column_index' = [j \in 1..NumCols(model.A) |-> j - 1]
    /\ operation_table' =
           Append(operation_table,
               TableEntry("Initial", model.cons_senses, model.variable_names,
                          model.A))
    /\ change_dictionary' = journal_after_rebinding(change_dictionary)
    /\ pc' = Following(0)
    /\ UNCHANGED <<model, perform, k, solution, warned>>

NextRepeated == Next \/ orchestrator_presolve_operations_again

SpecRepeated == Init /\ [][NextRepeated]_vars

\* C20: over repeated invocations on one engine the operation table has a
\* single entry labelled "Initial", the first one, and the rows and cols
\* values never increase from an entry to the next.
C20_RepeatedInvocationDeepens ==
    /\ \A i \in DOMAIN operation_table :
           operation_table[i][1] = "Initial" => i = 1
    /\ \A i \in 1..(Len(operation_table) - 1) :
           NonIncreasing(operation_table[i], operation_table[i + 1])

=============================================================================
